---- MODULE Spec2Model ----
(***************************************************************************)
(* Model of the two scripts of the repository:                             *)
(*   videodownloader.py  - the playlist download loop of main() and the    *)
(*                         filename matcher is_already_downloaded()        *)
(*   qBitDownloader.py   - the link extraction extract_plugin_urls()       *)
(* Strings are sequences of one-character strings, so that cleaning,       *)
(* lowercasing, trimming and substring tests are computed, not assumed.    *)
(***************************************************************************)
EXTENDS Integers, Sequences, FiniteSets, TLC

VARIABLES
    video_list,        \* main: the candidates returned by get_playlist_urls_fast
    files,             \* the content of download_dir (os.listdir)
    snapshot,          \* history: the content of download_dir when the loop started
    pc,                \* "loop", "done" (summary printed) or "aborted" (exception left main)
    i,                 \* main: index of the candidate the loop handles next
    downloaded_count,  \* main: counters of the summary
    skipped_duration,
    skipped_exists,
    errors,
    trace,             \* history: what happened to each candidate handled in this run
    prev_trace,        \* history: the downloads of the previous run, candidate by candidate
    prev_pc,           \* history: how the previous run ended ("none" before the first)
    html_content,      \* qBitDownloader: input of extract_plugin_urls
    unique_urls,       \* qBitDownloader: its result
    extracted          \* qBitDownloader: whether extract_plugin_urls has run

vars == <<video_list, files, snapshot, pc, i, downloaded_count, skipped_duration,
          skipped_exists, errors, trace, prev_trace, prev_pc,
          html_content, unique_urls, extracted>>

loopVars == <<video_list, files, snapshot, pc, i, downloaded_count, skipped_duration,
              skipped_exists, errors, trace, prev_trace, prev_pc>>

extractVars == <<html_content, unique_urls, extracted>>

(***************************************************************************)
(* Bounds of the model.                                                    *)
(***************************************************************************)
MaxVideos == 2
MaxMarkup == 4

(***************************************************************************)
(* Characters and strings.                                                 *)
(***************************************************************************)
\* "Idot" is U+0130 (capital I with dot above): alphanumeric, and str.lower()
\* turns it into the two code points "i" + "dot" (U+0307, a combining mark,
\* not alphanumeric).
UpperChars == {"M", "G", "V", "E", "F", "Idot"}
LowerChars == {"m", "g", "v", "e", "f", "y", "r", "a", "t", "i", "d", "o", "p", "u", "l"}
DigitChars == {"1", "2"}

isalnum(c) == c \in UpperChars \cup LowerChars \cup DigitChars

\* str.lower() of one character, as a string
LowerChar(c) ==
    CASE c = "M" -> <<"m">>
      [] c = "G" -> <<"g">>
      [] c = "V" -> <<"v">>
      [] c = "E" -> <<"e">>
      [] c = "F" -> <<"f">>
      [] c = "Idot" -> <<"i", "dot">>
      [] OTHER -> <<c>>

RECURSIVE lower(_)
lower(s) == IF s = <<>> THEN <<>> ELSE LowerChar(Head(s)) \o lower(Tail(s))

RECURSIVE lstrip(_)
lstrip(s) == IF s # <<>> /\ Head(s) = " " THEN lstrip(Tail(s)) ELSE s

RECURSIVE rstrip(_)
rstrip(s) ==
    IF s # <<>> /\ s[Len(s)] = " " THEN rstrip(SubSeq(s, 1, Len(s) - 1)) ELSE s

strip(s) == rstrip(lstrip(s))

\* needle in hay
Contains(needle, hay) ==
    \E k \in 0..(Len(hay) - Len(needle)) : SubSeq(hay, k + 1, k + Len(needle)) = needle

KeptChar(c) == isalnum(c) \/ c \in {" ", "-", "_"}

\* "".join(c for c in video_title if c.isalnum() or c in (' ', '-', '_')).strip()
CleanTitle(video_title) == strip(SelectSeq(video_title, KeptChar))

(***************************************************************************)
(* videodownloader.py: configuration and inputs.                           *)
(***************************************************************************)
max_duration == 30 * 60

\* the length both needles of the matcher must exceed
MinNeedleLen == 10

\* Python's None, as a duration and as a title
None == -1
NoneTitle == <<"<None>">>

T_Ep1 == <<"E", "p", "1">>
T_Video == <<"M", "y", " ", "G", "r", "e", "a", "t", " ", "V", "i", "d", "e", "o">>
T_Video2 == T_Video \o <<" ", "2">>
T_VideoComma == <<"M", "y", " ", "G", "r", "e", "a", "t", ",", " ", "V", "i", "d", "e", "o">>
T_Idots == <<"Idot", "Idot", "Idot", "Idot", "Idot", "Idot", "Idot", "Idot", "Idot", "Idot">>

S_Ep1Full == <<"E", "p", "1", " ", "F", "u", "l", "l">>
S_idots == <<"i", "dot", "i", "dot", "i", "dot", "i", "dot", "i", "dot", "i", "dot">>

\* The entries get_playlist_urls_fast can return: a title (None when the entry
\* carries "title": None) and the duration the site reports for the video
\* (None when it reports none).
Candidates ==
    { [title |-> T_Ep1,        duration |-> 0],
      [title |-> T_Video,      duration |-> max_duration],
      [title |-> T_Video2,     duration |-> None],
      [title |-> T_VideoComma, duration |-> 60],
      [title |-> T_Idots,      duration |-> max_duration + 1],
      [title |-> NoneTitle,    duration |-> 60] }

\* What download_dir can hold before the first run.
InitialDirs ==
    { {},
      { [stem |-> S_Ep1Full, ext |-> ".mp4"],
        [stem |-> T_Video, ext |-> ".part"],
        [stem |-> S_idots, ext |-> ".webm"] } }

RECURSIVE SeqsUpTo(_, _)
SeqsUpTo(S, n) ==
    IF n = 0 THEN { <<>> }
    ELSE LET shorter == SeqsUpTo(S, n - 1)
         IN  shorter \cup { Append(q, x) : q \in shorter, x \in S }

(***************************************************************************)
(* videodownloader.py: is_already_downloaded.                              *)
(***************************************************************************)
MediaExts == {".mp4", ".mkv", ".webm", ".m4a", ".mp3"}

\* the matcher without its length guards
FileMatchesNoGuard(clean_title, file_stem) ==
    LET title_lower == lower(clean_title)
        stem_lower == lower(file_stem)
    IN  \/ Contains(title_lower, stem_lower)
        \/ Contains(stem_lower, title_lower)

\* lines 119-122: the two containment tests of one file
FileMatches(clean_title, file_stem) ==
    LET title_lower == lower(clean_title)
        stem_lower == lower(file_stem)
    IN  \/ Len(clean_title) > MinNeedleLen /\ Contains(title_lower, stem_lower)
        \/ Len(file_stem) > MinNeedleLen /\ Contains(stem_lower, title_lower)

\* The first component of the result. download_dir exists (main creates it),
\* so the early return of line 109 is not taken. The file stem is compared as
\* it is: only the title is cleaned.
is_already_downloaded(video_title, listing) ==
    LET clean_title == CleanTitle(video_title)
    IN  \E file \in listing :
            /\ file.ext \in MediaExts
            /\ FileMatches(clean_title, file.stem)

\* iterating over the title raises TypeError when it is None
CheckRaises(video_title) == video_title = NoneTitle

\* a listing that is read once, when the loop starts
ListDirAtLoopStart == snapshot

\* os.listdir(download_dir), called by is_already_downloaded for every candidate
ListDir == files

(***************************************************************************)
(* videodownloader.py: main.                                               *)
(***************************************************************************)
\* a duration limit read as minutes and converted once more
IsTooLongMinutes(duration) ==
    duration # None /\ duration # 0 /\ duration > max_duration * 60

\* line 221: if duration and duration > max_duration
IsTooLong(duration) ==
    duration # None /\ duration # 0 /\ duration > max_duration

\* check_available_formats: the duration it returns; None when it failed
FetchedDuration(video, meta) == IF meta = "ok" THEN video.duration ELSE None

\* the file yt-dlp writes for outtmpl '%(title)s.%(ext)s', merged to mp4
OutputFile(video) == [stem |-> video.title, ext |-> ".mp4"]

\* a failed download that is not counted
CountDownloadDropsError(ok) ==
    /\ downloaded_count' = IF ok THEN downloaded_count + 1 ELSE downloaded_count
    /\ errors' = errors

\* a failed download counted as a success
CountDownloadSwapped(ok) ==
    /\ downloaded_count' = downloaded_count + 1
    /\ errors' = errors

\* lines 228-233
CountDownload(ok) ==
    /\ downloaded_count' = IF ok THEN downloaded_count + 1 ELSE downloaded_count
    /\ errors' = IF ok THEN errors ELSE errors + 1

Entry(match, meta, long, dl) == [match |-> match, meta |-> meta, long |-> long, dl |-> dl]

InLoop == pc = "loop" /\ i <= Len(video_list)

\* lines 207-211
SkipExists ==
    /\ InLoop
    /\ ~CheckRaises(video_list[i].title)
    /\ is_already_downloaded(video_list[i].title, ListDir)
    /\ skipped_exists' = skipped_exists + 1
    /\ trace' = Append(trace, Entry(TRUE, "unfetched", FALSE, "none"))
    /\ i' = i + 1
    /\ UNCHANGED <<video_list, files, snapshot, pc, downloaded_count, skipped_duration,
                   errors, prev_trace, prev_pc>>
    /\ UNCHANGED extractVars

\* line 207 raises: the exception leaves the loop and main, and the handler of
\* lines 254-256 prints it; the summary is not printed
CheckAborts ==
    /\ InLoop
    /\ CheckRaises(video_list[i].title)
    /\ pc' = "aborted"
    /\ UNCHANGED <<video_list, files, snapshot, i, downloaded_count, skipped_duration,
                   skipped_exists, errors, trace, prev_trace, prev_pc>>
    /\ UNCHANGED extractVars

\* lines 207-224, the candidate is not on disk and is too long
SkipTooLong ==
    /\ InLoop
    /\ ~CheckRaises(video_list[i].title)
    /\ ~is_already_downloaded(video_list[i].title, ListDir)
    /\ \E meta \in {"ok", "failed"} :
        /\ IsTooLong(FetchedDuration(video_list[i], meta))
        /\ trace' = Append(trace, Entry(FALSE, meta, TRUE, "none"))
    /\ skipped_duration' = skipped_duration + 1
    /\ i' = i + 1
    /\ UNCHANGED <<video_list, files, snapshot, pc, downloaded_count, skipped_exists,
                   errors, prev_trace, prev_pc>>
    /\ UNCHANGED extractVars

\* lines 207-236, the candidate is not on disk and not too long: download_video
\* is called; it returns True after writing the file, or False on an exception
Download ==
    /\ InLoop
    /\ ~CheckRaises(video_list[i].title)
    /\ ~is_already_downloaded(video_list[i].title, ListDir)
    /\ \E meta \in {"ok", "failed"}, ok \in BOOLEAN :
        /\ ~IsTooLong(FetchedDuration(video_list[i], meta))
        /\ files' = IF ok THEN files \cup {OutputFile(video_list[i])} ELSE files
        /\ CountDownload(ok)
        /\ trace' = Append(trace, Entry(FALSE, meta, FALSE, IF ok THEN "ok" ELSE "failed"))
    /\ i' = i + 1
    /\ UNCHANGED <<video_list, snapshot, pc, skipped_duration, skipped_exists,
                   prev_trace, prev_pc>>
    /\ UNCHANGED extractVars

\* lines 238-247
PrintSummary ==
    /\ pc = "loop"
    /\ i > Len(video_list)
    /\ pc' = "done"
    /\ UNCHANGED <<video_list, files, snapshot, i, downloaded_count, skipped_duration,
                   skipped_exists, errors, trace, prev_trace, prev_pc>>
    /\ UNCHANGED extractVars

\* what the next run remembers of a handled candidate: the result of its
\* download and, when that failed, whether its metadata had been fetched
Remembered(e) == [dl |-> e.dl, meta |-> IF e.dl = "failed" THEN e.meta ELSE "-"]

\* the script is run again on the same playlist: lines 163-198
StartRun ==
    /\ pc \in {"done", "aborted"}
    /\ pc' = "loop"
    /\ i' = 1
    /\ downloaded_count' = 0
    /\ skipped_duration' = 0
    /\ skipped_exists' = 0
    /\ errors' = 0
    /\ snapshot' = files
    /\ prev_trace' = [k \in 1..Len(trace) |-> Remembered(trace[k])]
    /\ prev_pc' = pc
    /\ trace' = <<>>
    /\ UNCHANGED <<video_list, files>>
    /\ UNCHANGED extractVars

Init ==
    /\ video_list \in SeqsUpTo(Candidates, MaxVideos) \ { <<>> }
    /\ files \in InitialDirs
    /\ snapshot = files
    /\ pc = "loop"
    /\ i = 1
    /\ downloaded_count = 0
    /\ skipped_duration = 0
    /\ skipped_exists = 0
    /\ errors = 0
    /\ trace = <<>>
    /\ prev_trace = <<>>
    /\ prev_pc = "none"
    /\ html_content = <<>>
    /\ unique_urls = <<>>
    /\ extracted = FALSE

Next ==
    \/ SkipExists
    \/ CheckAborts
    \/ SkipTooLong
    \/ Download
    \/ PrintSummary
    \/ StartRun

Spec == Init /\ [][Next]_vars

(***************************************************************************)
(* Properties of the download loop.                                        *)
(***************************************************************************)
Handled == 1..Len(trace)

HandledTwice == { k \in Handled : k <= Len(prev_trace) }

NumMatch == Cardinality({ k \in Handled : trace[k].match })

NumLong == Cardinality({ k \in Handled : trace[k].long })

NumDl(result) == Cardinality({ k \in Handled : trace[k].dl = result })

NumMetaFailed == Cardinality({ k \in Handled : trace[k].meta = "failed" })

KnownTooLong(k) ==
    /\ trace[k].meta = "ok"
    /\ video_list[k].duration # None
    /\ video_list[k].duration > max_duration

\* C1: a candidate whose fetched duration is known and greater than
\* max_duration is never passed to download_video; it is counted as skipped
\* for its duration.
Thm_C1_DurationFilter ==
    /\ \A k \in Handled : KnownTooLong(k) => trace[k].dl = "none" /\ trace[k].long
    /\ skipped_duration = NumLong

Wit_C1_DurationFilter ==
    \E k \in Handled : KnownTooLong(k) /\ trace[k].long /\ skipped_duration > 0

\* C2: when a run has completed (here: with every download it started
\* succeeding) and the script is run again on the same playlist and the
\* directory the first run left, the second run calls download_video for no
\* candidate.
CX_C2_SecondRunFetchesNothing ==
    ( /\ prev_pc = "done"
      /\ \A k \in 1..Len(prev_trace) : prev_trace[k].dl # "failed"
      /\ pc = "done" )
    => \A k \in Handled : trace[k].dl = "none"

\* C4: when check_available_formats fails for a candidate that is not on
\* disk, download_video is not called for it and it is counted as an error.
CX_C4_MetadataFailureIsError ==
    /\ \A k \in Handled : trace[k].meta = "failed" => trace[k].dl = "none"
    /\ errors >= NumMetaFailed

\* C5 (as amended): a title whose cleaned form, lowercased, has at most 10
\* characters is matched by no file of any listing; its metadata is fetched
\* and it is not counted as already existing.
Thm_C5_ShortTitleGuard ==
    \A k \in Handled :
        Len(lower(CleanTitle(video_list[k].title))) <= MinNeedleLen
            => ~trace[k].match /\ trace[k].meta # "unfetched"

\* a short title was handled while a media file whose name contains it was there
Wit_C5_ShortTitleGuard ==
    \E k \in Handled :
        /\ Len(lower(CleanTitle(video_list[k].title))) <= MinNeedleLen
        /\ \E file \in snapshot :
            /\ file.ext \in MediaExts
            /\ FileMatchesNoGuard(CleanTitle(video_list[k].title), file.stem)
        /\ ~trace[k].match

\* C5 (as stated): a title whose cleaned form has at most 10 characters is
\* matched by no file of any listing.
CX_C5_ShortTitleGuard ==
    \A k \in Handled :
        Len(CleanTitle(video_list[k].title)) <= MinNeedleLen
            => ~trace[k].match /\ trace[k].meta # "unfetched"

\* C6: every handled candidate adds one to exactly one counter: the counters
\* count the outcomes, their sum is the number of candidates handled so far,
\* and the length of the list when the loop has ended.
Thm_C6_SummaryAccounting ==
    /\ \A k \in Handled :
        Cardinality({ o \in {"exists", "long", "ok", "failed"} :
                        \/ o = "exists" /\ trace[k].match
                        \/ o = "long" /\ trace[k].long
                        \/ o = trace[k].dl }) = 1
    /\ skipped_exists = NumMatch
    /\ skipped_duration = NumLong
    /\ downloaded_count = NumDl("ok")
    /\ errors = NumDl("failed")
    /\ downloaded_count + skipped_duration + skipped_exists + errors = Len(trace)
    /\ pc = "loop" => Len(trace) = i - 1
    /\ pc = "done" =>
        downloaded_count + skipped_duration + skipped_exists + errors = Len(video_list)

Wit_C6_SummaryAccounting ==
    /\ pc = "done"
    /\ Len(video_list) = MaxVideos
    /\ errors = 1
    /\ skipped_exists + skipped_duration + downloaded_count = MaxVideos - 1

FilesOfRun == { OutputFile(video_list[k]) : k \in { j \in Handled : trace[j].dl = "ok" } }

ListingSeenBy(k) ==
    snapshot \cup { OutputFile(video_list[j]) : j \in { h \in 1..(k - 1) : trace[h].dl = "ok" } }

\* C8 (as amended): whether a candidate is skipped as existing depends on its
\* title and on the directory as it is when the candidate is checked: the
\* listing at loop start and the files written for earlier candidates of
\* this run.
Thm_C8_ListingPerCandidate ==
    \A k \in Handled :
        trace[k].match = is_already_downloaded(video_list[k].title, ListingSeenBy(k))

\* a candidate was skipped because of a file written earlier in the same run
Wit_C8_ListingPerCandidate ==
    \E k \in Handled :
        trace[k].match /\ ~is_already_downloaded(video_list[k].title, snapshot)

\* C8 (as stated): whether a candidate is skipped as existing depends only
\* on its title and on the listing taken when the loop started.
CX_C8_SnapshotPurity ==
    \A k \in Handled :
        trace[k].match = is_already_downloaded(video_list[k].title, snapshot)

\* C9: a title longer than 10 characters when cleaned, and a media file whose
\* stem cleaned the same way gives the same string, are reported as a match.
CX_C9_SymmetricNormalization ==
    \A k \in Handled :
        ( /\ Len(CleanTitle(video_list[k].title)) > MinNeedleLen
          /\ \E file \in snapshot :
                /\ file.ext \in MediaExts
                /\ CleanTitle(file.stem) = CleanTitle(video_list[k].title) )
        => trace[k].match

\* C10: when a run has ended, every candidate has been handled and the
\* summary has been printed, whatever failed on the way.
CX_C10_NoAbort ==
    pc \in {"done", "aborted"} => pc = "done" /\ Len(trace) = Len(video_list)

(***************************************************************************)
(* qBitDownloader.py: extract_plugin_urls.                                 *)
(* The markup is a sequence of tokens. "RAW", "GH" and "GIST" stand for    *)
(* the three URL prefixes, "/raw/" and "u" for themselves, "x.py" for a    *)
(* file name ending in .py, and " " for any character the patterns         *)
(* exclude (white space, a double quote, a closing parenthesis, "<").      *)
(***************************************************************************)
Tokens == {"RAW", "GH", "GIST", "/raw/", "u", "x.py", " "}

\* The pieces the markup is put together from: every token, and two whole
\* URLs, each with the character that ends it.
Pieces == { <<t>> : t \in Tokens } \cup { <<"RAW", "x.py", " ">>, <<"GIST", "x.py", " ">> }

RECURSIVE Flatten(_)
Flatten(ss) == IF ss = <<>> THEN <<>> ELSE Head(ss) \o Flatten(Tail(ss))

\* the prefixes of the three patterns, in the order of the list `patterns`
PatternPrefix(p) == CASE p = 1 -> "RAW" [] p = 2 -> "GH" [] p = 3 -> "GIST"

\* the patterns visited with the gist pattern first
PatternOrderGistFirst == <<3, 1, 2>>

\* the order in which the loop of line 38 visits the patterns
PatternOrder == <<1, 2, 3>>

\* last index of the run of [^\s"\)<] characters that starts after position pos
RECURSIVE RunEnd(_, _)
RunEnd(s, pos) ==
    IF pos < Len(s) /\ s[pos + 1] # " " THEN RunEnd(s, pos + 1) ELSE pos

\* Where the match of pattern p that starts at pos ends; 0 when there is none.
\* The groups are greedy, so the match ends at the last ".py" of the run; the
\* "x" of "x.py" is a character of the group before it. Pattern 2 also needs
\* "/raw/" after at least one character, and before that ".py".
MatchEnd(p, s, pos) ==
    IF s[pos] # PatternPrefix(p) THEN 0
    ELSE LET last == RunEnd(s, pos)
             ends == { e \in (pos + 1)..last :
                         /\ s[e] = "x.py"
                         /\ p = 2 => \E r \in (pos + 2)..(e - 1) : s[r] = "/raw/" }
         IN  IF ends = {} THEN 0 ELSE CHOOSE e \in ends : \A f \in ends : f <= e

\* re.findall(pattern, html_content) from position pos on, as <<start, end>>
\* pairs: leftmost matches, the search resuming after each
RECURSIVE FindAllFrom(_, _, _)
FindAllFrom(p, s, pos) ==
    IF pos > Len(s) THEN <<>>
    ELSE LET e == MatchEnd(p, s, pos)
         IN  IF e = 0 THEN FindAllFrom(p, s, pos + 1)
             ELSE <<(<<pos, e>>)>> \o FindAllFrom(p, s, e + 1)

Spans(p, s) == FindAllFrom(p, s, 1)

findall(p, s) == [n \in 1..Len(Spans(p, s)) |-> SubSeq(s, Spans(p, s)[n][1], Spans(p, s)[n][2])]

\* lines 43-48: urls without the ones already seen
RECURSIVE Unique(_, _)
Unique(urls, seen) ==
    IF urls = <<>> THEN <<>>
    ELSE IF Head(urls) \in seen THEN Unique(Tail(urls), seen)
    ELSE <<Head(urls)>> \o Unique(Tail(urls), seen \cup {Head(urls)})

extract_plugin_urls(html) ==
    LET urls == findall(PatternOrder[1], html) \o findall(PatternOrder[2], html)
                    \o findall(PatternOrder[3], html)
    IN  Unique(urls, {})

\* main, line 75
ExtractPluginUrls ==
    /\ ~extracted
    /\ unique_urls' = extract_plugin_urls(html_content)
    /\ extracted' = TRUE
    /\ UNCHANGED html_content
    /\ UNCHANGED loopVars

InitExtract ==
    /\ html_content \in { Flatten(ps) : ps \in SeqsUpTo(Pieces, MaxMarkup) }
    /\ unique_urls = <<>>
    /\ extracted = FALSE
    /\ video_list = <<>>
    /\ files = {}
    /\ snapshot = {}
    /\ pc = "done"
    /\ i = 1
    /\ downloaded_count = 0
    /\ skipped_duration = 0
    /\ skipped_exists = 0
    /\ errors = 0
    /\ trace = <<>>
    /\ prev_trace = <<>>
    /\ prev_pc = "none"

NextExtract == ExtractPluginUrls

SpecExtract == InitExtract /\ [][NextExtract]_vars

(***************************************************************************)
(* Properties of extract_plugin_urls.                                      *)
(***************************************************************************)
\* every <<pattern, start, end>> at which re.findall matches
AllSpans ==
    UNION { { <<p, Spans(p, html_content)[n][1], Spans(p, html_content)[n][2]>> :
                n \in 1..Len(Spans(p, html_content)) } : p \in 1..3 }

UrlAt(sp) == SubSeq(html_content, sp[2], sp[3])

Returned == 1..Len(unique_urls)

\* the pattern a URL matches: the one of its prefix
Shape(url) == CHOOSE p \in 1..3 : PatternPrefix(p) = url[1]

Min(S) == CHOOSE x \in S : \A y \in S : x <= y

\* where the markup has the URL first
FirstSeen(url) == Min({ sp[2] : sp \in { t \in AllSpans : UrlAt(t) = url } })

\* a prefix, then characters the patterns allow, ".py" at the end, and for
\* the second pattern "/raw/" inside, after at least one character
WellShaped(url) ==
    /\ Len(url) >= 2
    /\ url[1] \in {"RAW", "GH", "GIST"}
    /\ url[Len(url)] = "x.py"
    /\ \A n \in 1..Len(url) : url[n] # " "
    /\ url[1] = "GH" => \E r \in 3..(Len(url) - 1) : url[r] = "/raw/"

NoUrlTwice == \A a, b \in Returned : a # b => unique_urls[a] # unique_urls[b]

ExactlyTheMatches ==
    /\ { unique_urls[a] : a \in Returned } = { UrlAt(sp) : sp \in AllSpans }
    /\ \A a \in Returned : WellShaped(unique_urls[a])

\* no match lies inside or across another
SpansApart ==
    \A sp, tp \in AllSpans : sp # tp => sp[3] < tp[2] \/ tp[3] < sp[2]

\* C3 (as amended): the result holds no URL twice and exactly the URLs the
\* three patterns match; it lists the URLs of the first pattern, then those
\* of the second, then those of the third, and the URLs of one pattern in
\* the order of their first occurrence in the markup.
Thm_C3_ExtractOrder ==
    extracted =>
        /\ NoUrlTwice
        /\ ExactlyTheMatches
        /\ \A a, b \in Returned :
            a < b =>
                \/ Shape(unique_urls[a]) < Shape(unique_urls[b])
                \/ /\ Shape(unique_urls[a]) = Shape(unique_urls[b])
                   /\ FirstSeen(unique_urls[a]) < FirstSeen(unique_urls[b])

\* no URLs overlap, a URL occurs twice, and a URL of a later pattern precedes,
\* in the markup, one of an earlier pattern
Wit_C3_ExtractOrder ==
    /\ extracted
    /\ SpansApart
    /\ Cardinality(AllSpans) > Len(unique_urls)
    /\ \E a, b \in Returned :
        a < b /\ FirstSeen(unique_urls[b]) < FirstSeen(unique_urls[a])

\* C3 (as stated): no URL twice, exactly the matching URLs, in the order of
\* their first occurrence in the markup, whichever pattern each matches
\* (here: for markup whose URLs do not overlap).
CX_C3_FirstSeenOrder ==
    extracted /\ SpansApart =>
        /\ NoUrlTwice
        /\ ExactlyTheMatches
        /\ \A a, b \in Returned :
            a < b => FirstSeen(unique_urls[a]) < FirstSeen(unique_urls[b])

====
